---------------------------- MODULE Spec2Model ----------------------------
(***************************************************************************)
(* A model of dify-client-rust (src/src/lib.rs): the DifyClient request    *)
(* builder / dispatcher, the chunked file reader, the endpoint facades     *)
(* and the ResponseMode enum, together with the callers of                 *)
(* src/tests/chat.rs that consume the returned response.                   *)
(*                                                                         *)
(* Strings are TLA+ strings, byte sequences are sequences of 0..255,       *)
(* Option<T> is a sequence of length 0 (None) or 1 (Some), and a           *)
(* serde_json::Value is a record [t, v] tagged with its variant.           *)
(***************************************************************************)
EXTENDS Integers, Sequences, FiniteSets, TLC

VARIABLES
    client,     \* the DifyClient: [api_key, base_url]
    fs,         \* the local file system: path -> [exists, bytes, fail_at]
    calls,      \* one record per call issued through the client
    network,    \* the exchanges of the transport, call by call
    rm_mode,    \* ResponseMode round trip: the variant at hand
    rm_text,    \* ResponseMode round trip: a JSON text
    rm_parsed   \* ResponseMode round trip: the last parse result

vars == <<client, fs, calls, network, rm_mode, rm_text, rm_parsed>>

---------------------------------------------------------------------------
\* Bounds of the model

\* calls issued through one client
MaxCalls == 2
\* bytes past the chunk size in the longest file of the reader's specification
MaxExtra == 1
\* body chunks a response delivers
MaxChunks == 2

\* the read buffer of async_read_file_to_vec
ChunkSize == 1024

---------------------------------------------------------------------------
\* Option<T>

None == <<>>
Some(x) == <<x>>
IsSome(o) == Len(o) = 1
Unwrap(o) == o[1]

\* Option::unwrap_or
UnwrapOr(o, d) == IF IsSome(o) THEN o[1] ELSE d

---------------------------------------------------------------------------
\* serde_json::Value and the json! macro

JString(s) == [t |-> "String", v |-> s]
JBool(b) == [t |-> "Bool", v |-> b]
JArray(a) == [t |-> "Array", v |-> a]
JObject(f) == [t |-> "Object", v |-> f]

EmptyMap == [k \in {} |-> JBool(FALSE)]

\* serde_json::Map::insert: the key is added, or its value replaced
MapInsert(m, key, val) ==
    [k \in (DOMAIN m) \cup {key} |-> IF k = key THEN val ELSE m[k]]

\* data.as_object_mut().unwrap().insert(key, val)
ObjectInsert(data, key, val) == JObject(MapInsert(data.v, key, val))

Quote(s) == "\"" \o s \o "\""

\* Value::to_string (Display for Value: compact JSON) for strings, booleans
\* and objects of one key, which is all the multipart path serializes
RECURSIVE ValueToString(_)
ValueToString(val) ==
    IF val.t = "String" THEN Quote(val.v)
    ELSE IF val.t = "Bool" THEN (IF val.v THEN "true" ELSE "false")
    ELSE IF val.t = "Object" /\ Cardinality(DOMAIN val.v) = 1
    THEN LET k == CHOOSE x \in DOMAIN val.v : TRUE
         IN  "{" \o Quote(k) \o ":" \o ValueToString(val.v[k]) \o "}"
    ELSE IF val.t = "Object" /\ DOMAIN val.v = {} THEN "{}"
    ELSE "[]"

---------------------------------------------------------------------------
\* ResponseMode

ResponseModes == {"Block", "Stream"}

\* a variant of SerdeName with the rename of Stream misspelt
SerdeNameStream(mode) == IF mode = "Block" THEN "blocking" ELSE "stream"
\* #[serde(rename = ...)] on the variants: the name Serialize writes
SerdeName(mode) == IF mode = "Block" THEN "blocking" ELSE "streaming"

\* derive(Serialize) through serde_json::to_value: a unit variant is a string
ModeToValue(mode) == JString(SerdeName(mode))

\* serde_json::to_string(&mode): the JSON text of a unit variant, a quoted string
ModeToJsonText(mode) == Quote(SerdeName(mode))

\* impl Display for ResponseMode: writes serde_json::to_string's text
ModeToString(mode) == ModeToJsonText(mode)

\* derive(Deserialize): the variant a name selects, if any
DeserializeName(name) ==
    IF name = "blocking" THEN Some("Block")
    ELSE IF name = "streaming" THEN Some("Stream")
    ELSE None

\* serde_json::from_str::<ResponseMode>: the text must be one JSON string
\* (no escapes in the strings modelled) naming a variant
ModeFromJsonText(text) ==
    IF /\ Len(text) >= 2
       /\ SubSeq(text, 1, 1) = "\""
       /\ SubSeq(text, Len(text), Len(text)) = "\""
       /\ \A i \in 2..(Len(text) - 1) : SubSeq(text, i, i) # "\""
    THEN DeserializeName(SubSeq(text, 2, Len(text) - 1))
    ELSE None

---------------------------------------------------------------------------
\* Strings

HasPrefix(s, p) == Len(s) >= Len(p) /\ SubSeq(s, 1, Len(p)) = p

\* format!("{}{}", a, b)
Format2(a, b) == a \o b

\* form-urlencoded serialization of one character (over the characters the
\* modelled arguments use): a space becomes "+", unreserved characters stay
UrlEncodeChar(ch) ==
    IF ch = " " THEN "+"
    ELSE IF ch = "&" THEN "%26"
    ELSE IF ch = "=" THEN "%3D"
    ELSE ch

RECURSIVE UrlEncode(_)
UrlEncode(s) ==
    IF Len(s) = 0 THEN ""
    ELSE UrlEncodeChar(SubSeq(s, 1, 1)) \o UrlEncode(SubSeq(s, 2, Len(s)))

---------------------------------------------------------------------------
\* http::HeaderMap and HeaderValue. Header names are case-insensitive and kept
\* in lower case; a name maps to the sequence of its values.

EmptyHeaders == [n \in {} |-> <<>>]

\* a variant of HeaderValueOk that accepts every string
HeaderValueOkLax(s) == TRUE
\* HeaderValue::from_str / try_from: no control character may occur
HeaderValueOk(s) ==
    \A i \in 1..Len(s) : SubSeq(s, i, i) \notin {"\n", "\r"}

\* HeaderMap::insert: the name's values are replaced by the one given
HeaderInsert(h, name, val) ==
    [n \in (DOMAIN h) \cup {name} |-> IF n = name THEN <<val>> ELSE h[n]]

\* HeaderMap::append: the value is added after the name's values
HeaderAppend(h, name, val) ==
    [n \in (DOMAIN h) \cup {name} |->
        IF n = name
        THEN (IF name \in DOMAIN h THEN Append(h[n], val) ELSE <<val>>)
        ELSE h[n]]

---------------------------------------------------------------------------
\* reqwest::RequestBuilder: a request under construction, or the first error
\* of its construction (which build() and send() return, sending nothing)

NoBody == [kind |-> "none", json |-> None, parts |-> <<>>]

\* IntoUrl: an absolute http(s) URL with a host
UrlOk(url) ==
    \/ HasPrefix(url, "https://") /\ Len(url) > 8 /\ SubSeq(url, 9, 9) # "/"
    \/ HasPrefix(url, "http://") /\ Len(url) > 7 /\ SubSeq(url, 8, 8) # "/"

BuilderErr(b, e) == [b EXCEPT !.ok = FALSE, !.err = e]

\* self.client.request(method, &url)
ClientRequest(method, url) ==
    [ok |-> UrlOk(url),
     err |-> IF UrlOk(url) THEN "" ELSE "builder: url",
     req |-> [method |-> method, url |-> url, headers |-> EmptyHeaders,
              body |-> NoBody]]

\* RequestBuilder::headers: every name given replaces the request's
WithHeaders(b, hdrs) ==
    IF ~b.ok THEN b
    ELSE [b EXCEPT !.req.headers =
            [n \in (DOMAIN b.req.headers) \cup (DOMAIN hdrs) |->
                IF n \in DOMAIN hdrs THEN hdrs[n] ELSE b.req.headers[n]]]

\* RequestBuilder::bearer_auth: appends Authorization: Bearer <token>, or
\* records the invalid header value
BearerAuth(b, token) ==
    IF ~b.ok THEN b
    ELSE IF ~HeaderValueOk(Format2("Bearer ", token))
    THEN BuilderErr(b, "builder: header value")
    ELSE [b EXCEPT !.req.headers =
            HeaderAppend(b.req.headers, "authorization", Format2("Bearer ", token))]

\* RequestBuilder::json: the value is the body; Content-Type is set only when
\* the request has none yet
WithJson(b, val) ==
    IF ~b.ok THEN b
    ELSE [b EXCEPT
            !.req.headers =
                IF "content-type" \in DOMAIN b.req.headers
                THEN b.req.headers
                ELSE HeaderInsert(b.req.headers, "content-type", "application/json"),
            !.req.body = [kind |-> "json", json |-> Some(val), parts |-> <<>>]]

\* serde_urlencoded of a JSON object: only string, number and bool leaves
QuerySerializable(params) ==
    /\ params.t = "Object"
    /\ \A k \in DOMAIN params.v : params.v[k].t \in {"String", "Bool"}

\* the query string of an object of at most one key
QueryString(params) ==
    IF DOMAIN params.v = {} THEN ""
    ELSE LET k == CHOOSE x \in DOMAIN params.v : TRUE
             val == params.v[k]
         IN  UrlEncode(k) \o "=" \o
             UrlEncode(IF val.t = "String" THEN val.v ELSE ValueToString(val))

\* RequestBuilder::query
WithQuery(b, params) ==
    IF ~b.ok THEN b
    ELSE IF ~QuerySerializable(params) THEN BuilderErr(b, "builder: query")
    ELSE [b EXCEPT !.req.url = b.req.url \o "?" \o QueryString(params)]

\* reqwest::multipart::Form::new().text("data", text).part("file", Part::stream(bytes))
NewForm(boundary, text, bytes) ==
    [boundary |-> boundary,
     parts |-> << [name |-> "data", kind |-> "text", text |-> text, bytes |-> <<>>],
                  [name |-> "file", kind |-> "stream", text |-> "", bytes |-> bytes] >>]

\* a variant of WithMultipart that labels the form application/json
WithMultipartJsonType(b, form) ==
    IF ~b.ok THEN b
    ELSE [b EXCEPT
            !.req.headers = HeaderAppend(b.req.headers, "content-type", "application/json"),
            !.req.body = [kind |-> "multipart", json |-> None, parts |-> form.parts]]
\* RequestBuilder::multipart: appends the boundary-carrying Content-Type and
\* makes the form the body
WithMultipart(b, form) ==
    IF ~b.ok THEN b
    ELSE [b EXCEPT
            !.req.headers =
                HeaderAppend(b.req.headers, "content-type",
                             Format2("multipart/form-data; boundary=", form.boundary)),
            !.req.body = [kind |-> "multipart", json |-> None, parts |-> form.parts]]

---------------------------------------------------------------------------
\* DifyClient

DefaultBaseUrl == "https://api.dify.ai/v1"

\* DifyClient::new
NewClient(api_key, base_url) ==
    [api_key |-> api_key, base_url |-> UnwrapOr(base_url, DefaultBaseUrl)]

\* a variant of SendRequest that authenticates only requests with a JSON body
SendRequestNoAuth(self, method, endpoint, json, params, stream) ==
    LET headers == HeaderInsert(EmptyHeaders, "content-type", "application/json")
        url == Format2(self.base_url, endpoint)
        b0 == WithHeaders(ClientRequest(method, url), headers)
        b1 == IF IsSome(json) THEN BearerAuth(b0, self.api_key) ELSE b0
        b2 == IF IsSome(json) THEN WithJson(b1, Unwrap(json)) ELSE b1
    IN  IF IsSome(params) THEN WithQuery(b2, Unwrap(params)) ELSE b2
\* DifyClient::send_request up to request.build(): the builder whose request
\* is executed, or whose error is returned. The stream argument is not read.
SendRequest(self, method, endpoint, json, params, stream) ==
    LET headers == HeaderInsert(EmptyHeaders, "content-type", "application/json")
        url == Format2(self.base_url, endpoint)
        b0 == WithHeaders(ClientRequest(method, url), headers)
        b1 == BearerAuth(b0, self.api_key)
        b2 == IF IsSome(json) THEN WithJson(b1, Unwrap(json)) ELSE b1
    IN  IF IsSome(params) THEN WithQuery(b2, Unwrap(params)) ELSE b2

\* send_request_with_files, its first statement: the Authorization header,
\* or the error of HeaderValue::from_str
FilesHeaders(self) ==
    IF HeaderValueOk(Format2("Bearer ", self.api_key))
    THEN Some(HeaderInsert(EmptyHeaders, "authorization",
                           Format2("Bearer ", self.api_key)))
    ELSE None

\* send_request_with_files after the file is read: the builder that send()
\* sends, or whose error it returns
FilesRequest(self, method, endpoint, data, file_data, headers, boundary) ==
    LET url == Format2(self.base_url, endpoint)
        form == NewForm(boundary, ValueToString(data), file_data)
    IN  WithMultipart(WithHeaders(ClientRequest(method, url), headers), form)

---------------------------------------------------------------------------
\* The payloads the facades shape (json!)

\* message_feedback
FeedbackData(rating, user) ==
    JObject(MapInsert(MapInsert(EmptyMap, "rating", JBool(rating)),
                      "user", JString(user)))

\* get_application_parameters, file_upload
UserData(user) == JObject(MapInsert(EmptyMap, "user", JString(user)))

\* create_completion_message
CompletionData(inputs, response_mode, user, files) ==
    LET data == JObject(MapInsert(MapInsert(MapInsert(EmptyMap,
                    "inputs", inputs),
                    "response_mode", JString(response_mode)),
                    "user", JString(user)))
    IN  IF IsSome(files) THEN ObjectInsert(data, "files", Unwrap(files)) ELSE data

\* a variant of ChatData that inserts conversation_id also when none is given
ChatDataAlwaysConversation(inputs, query, user, response_mode, conversation_id, files) ==
    LET data == JObject(MapInsert(MapInsert(MapInsert(MapInsert(EmptyMap,
                    "inputs", inputs),
                    "query", JString(query)),
                    "user", JString(user)),
                    "response_mode", JString(ModeToString(response_mode))))
        d1 == ObjectInsert(data, "conversation_id",
                           JString(UnwrapOr(conversation_id, "")))
    IN  IF IsSome(files) THEN ObjectInsert(d1, "files", Unwrap(files)) ELSE d1
\* create_chat_message
ChatData(inputs, query, user, response_mode, conversation_id, files) ==
    LET data == JObject(MapInsert(MapInsert(MapInsert(MapInsert(EmptyMap,
                    "inputs", inputs),
                    "query", JString(query)),
                    "user", JString(user)),
                    "response_mode", JString(ModeToString(response_mode))))
        d1 == IF IsSome(conversation_id)
              THEN ObjectInsert(data, "conversation_id",
                                JString(Unwrap(conversation_id)))
              ELSE data
    IN  IF IsSome(files) THEN ObjectInsert(d1, "files", Unwrap(files)) ELSE d1

\* WorkflowClient::run
RunData(inputs, response_mode, user) ==
    JObject(MapInsert(MapInsert(MapInsert(EmptyMap,
        "inputs", inputs),
        "response_mode", ModeToValue(response_mode)),
        "user", JString(UnwrapOr(user, "abc-123"))))

\* create_dataset
DatasetData(name) == JObject(MapInsert(EmptyMap, "name", JString(name)))

---------------------------------------------------------------------------
\* The state of one call

NoArgs ==
    [message_id |-> "", rating |-> FALSE, user |-> None, path |-> "",
     inputs |-> JObject(EmptyMap), mode |-> "", query |-> "",
     conversation_id |-> None, files |-> None, name |-> ""]

\* the locals of send_request_with_files and async_read_file_to_vec. The read
\* buffer is not kept between the turns of the loop: a turn reads only the
\* bytes of it that the turn's own read has just written.
NoRead == [headers |-> None, open |-> FALSE, pos |-> 0, content |-> <<>>]

\* the reqwest::Response a call returned, as its caller holds it
NoHandle == [held |-> FALSE, status |-> 0, body |-> <<>>, consumed |-> 0]

IdleCall ==
    [pc |-> "idle", op |-> "", args |-> NoArgs, stream |-> FALSE,
     request |-> None, exchanges |-> 0, result |-> None, rd |-> NoRead,
     handle |-> NoHandle]

Calls == 1..MaxCalls

Err(e) == Some([ok |-> FALSE, err |-> e])
Ok == Some([ok |-> TRUE, err |-> ""])

\* the arguments one facade passes to send_request
SendArgs(method, endpoint, json, params, stream) ==
    [method |-> method, endpoint |-> endpoint, json |-> json,
     params |-> params, stream |-> stream]

\* a call of send_request, from its entry to the await of execute: the request
\* is built and the call waits for the transport, or the build error is returned
CallSendRequest(c, op, args, sr) ==
    LET b == SendRequest(client, sr.method, sr.endpoint, sr.json, sr.params,
                         sr.stream)
    IN  /\ calls[c].pc = "idle"
        /\ calls' = [calls EXCEPT ![c] =
              [@ EXCEPT !.op = op, !.args = args, !.stream = sr.stream,
                        !.pc = IF b.ok THEN "executing" ELSE "done",
                        !.request = IF b.ok THEN Some(b.req) ELSE None,
                        !.result = IF b.ok THEN None ELSE Err(b.err)]]
        /\ UNCHANGED <<client, fs, network, rm_mode, rm_text, rm_parsed>>

---------------------------------------------------------------------------
\* The public operations that go through send_request: what each passes to
\* it, and the call

FeedbackCall(a) ==
    SendArgs("POST", Format2(Format2("/messages/", a.message_id), "/feedbacks"),
             Some(FeedbackData(a.rating, Unwrap(a.user))), None, FALSE)

MessageFeedback(c, a) ==
    CallSendRequest(c, "message_feedback", a, FeedbackCall(a))

ParametersCall(a) ==
    SendArgs("GET", "/parameters", None, Some(UserData(Unwrap(a.user))), FALSE)

GetApplicationParameters(c, a) ==
    CallSendRequest(c, "get_application_parameters", a, ParametersCall(a))

CompletionCall(a) ==
    SendArgs("POST", "/completion-messages",
             Some(CompletionData(a.inputs, a.mode, Unwrap(a.user), a.files)),
             None, a.mode = "streaming")

CreateCompletionMessage(c, a) ==
    CallSendRequest(c, "create_completion_message", a, CompletionCall(a))

ChatCall(a) ==
    SendArgs("POST", "/chat-messages",
             Some(ChatData(a.inputs, a.query, Unwrap(a.user), a.mode,
                           a.conversation_id, a.files)),
             None, a.mode = "Stream")

CreateChatMessage(c, a) ==
    CallSendRequest(c, "create_chat_message", a, ChatCall(a))

RunCall(a) ==
    SendArgs("POST", "/workflows/run", Some(RunData(a.inputs, a.mode, a.user)),
             None, FALSE)

Run(c, a) == CallSendRequest(c, "run", a, RunCall(a))

DatasetCall(a) ==
    SendArgs("POST", "/datasets", Some(DatasetData(a.name)), None, FALSE)

CreateDataset(c, a) == CallSendRequest(c, "create_dataset", a, DatasetCall(a))

---------------------------------------------------------------------------
\* async_read_file_to_vec

Min(a, b) == IF a < b THEN a ELSE b

\* let mut buffer = [0; 1024]
NewBuffer == [i \in 1..ChunkSize |-> 0]

\* the byte count one file.read(&mut buffer) may return with `limit` bytes
\* readable: any count from 1 to limit; 1, 511 and limit are tried
ReadSizes(limit) == {n \in {1, 511, limit} : 1 <= n /\ n <= limit}

\* file.read(&mut buffer) returning n: the first n bytes of the buffer are the
\* file's next n bytes, the rest is left as it was
ReadInto(buffer, bytes, pos, n) ==
    [i \in 1..ChunkSize |-> IF i <= n THEN bytes[pos + i] ELSE buffer[i]]

\* a variant of ExtendFromSlice that appends the whole buffer
ExtendWholeBuffer(content, buffer, n) == content \o buffer
\* content.extend_from_slice(&buffer[..n])
ExtendFromSlice(content, buffer, n) == content \o SubSeq(buffer, 1, n)

\* the bytes a read may still deliver before the end of the file or the
\* position at which the file's reads fail
Readable(f, pos) ==
    Min(ChunkSize, UnwrapOr(f.fail_at, Len(f.bytes)) - pos)

---------------------------------------------------------------------------
\* file_upload / send_request_with_files, one action per await

\* the boundaries Form::new() may draw
Boundaries == {"b1", "b2"}

\* file_upload up to File::open: the Authorization header is built, or its
\* error returned
FileUpload(c, a) ==
    LET headers == FilesHeaders(client)
    IN  /\ calls[c].pc = "idle"
        /\ calls' = [calls EXCEPT ![c] =
              [@ EXCEPT !.op = "file_upload", !.args = a,
                        !.pc = IF IsSome(headers) THEN "open" ELSE "done",
                        !.rd = [NoRead EXCEPT !.headers = headers],
                        !.result = IF IsSome(headers) THEN None
                                   ELSE Err("header value")]]
        /\ UNCHANGED <<client, fs, network, rm_mode, rm_text, rm_parsed>>

\* File::open(file_path).await?
FileOpen(c) ==
    LET f == fs[calls[c].args.path]
    IN  /\ calls[c].pc = "open"
        /\ calls' = [calls EXCEPT ![c] =
              IF f.exists
              THEN [@ EXCEPT !.pc = "read", !.rd.open = TRUE]
              ELSE [@ EXCEPT !.pc = "done", !.result = Err("io: open")]]
        /\ UNCHANGED <<client, fs, network, rm_mode, rm_text, rm_parsed>>

\* one turn of the loop: file.read(&mut buffer).await? and what follows it.
\* At the read that returns 0 the loop ends, the file is closed, and
\* send_request_with_files builds the multipart request up to send().
FileRead(c, boundaries) ==
    LET call == calls[c]
        f == fs[call.args.path]
        rd == call.rd
        limit == Readable(f, rd.pos)
    IN  /\ call.pc = "read"
        /\ \/ /\ IsSome(f.fail_at) /\ limit = 0
              /\ calls' = [calls EXCEPT ![c] =
                    [@ EXCEPT !.pc = "done", !.result = Err("io: read"),
                              !.rd.open = FALSE]]
           \/ /\ ~IsSome(f.fail_at) /\ limit = 0
              /\ \E boundary \in boundaries :
                    LET b == FilesRequest(client, "POST", "/files/upload",
                                 UserData(Unwrap(call.args.user)), rd.content,
                                 Unwrap(rd.headers), boundary)
                    IN  calls' = [calls EXCEPT ![c] =
                          [@ EXCEPT !.pc = IF b.ok THEN "sending" ELSE "done",
                                    !.request = IF b.ok THEN Some(b.req) ELSE None,
                                    !.result = IF b.ok THEN None ELSE Err(b.err),
                                    !.rd.open = FALSE]]
           \/ /\ limit > 0
              /\ \E n \in ReadSizes(limit) :
                    LET buf == ReadInto(NewBuffer, f.bytes, rd.pos, n)
                    IN  calls' = [calls EXCEPT ![c] =
                          [@ EXCEPT !.rd.pos = rd.pos + n,
                                    !.rd.content = ExtendFromSlice(rd.content, buf, n)]]
        /\ UNCHANGED <<client, fs, network, rm_mode, rm_text, rm_parsed>>

---------------------------------------------------------------------------
\* The transport

Statuses == {200, 204, 404, 500}

\* the body chunks the remote may answer with
ChunkStream == [i \in 1..MaxChunks |-> i]
AllBodies == {SubSeq(ChunkStream, 1, n) : n \in 0..MaxChunks}

TransportFailure == [ok |-> FALSE, status |-> 0, body |-> <<>>]
Answer(status, body) == [ok |-> TRUE, status |-> status, body |-> body]

\* outcomes of one exchange: those of the concurrent specification, of the
\* specification of one call, and of the reader's
OutcomesSmall == {TransportFailure, Answer(200, <<1>>)}
OutcomesAll ==
    {TransportFailure} \cup {Answer(s, b) : s \in Statuses, b \in AllBodies}
OutcomesRead == {Answer(200, <<>>)}

\* one exchange as the transport saw it: the request and what came back
Exchanged(call, o) == [req |-> Unwrap(call.request), answer |-> o]

\* a variant of Exchange that sends the request a second time
ExchangeTwice(c, o) ==
    /\ network' = [network EXCEPT ![c] =
                        Append(Append(@, Exchanged(calls[c], o)),
                               Exchanged(calls[c], o))]
    /\ calls' = [calls EXCEPT ![c] =
          [@ EXCEPT !.pc = "done",
                    !.exchanges = @ + 2,
                    !.result = IF o.ok THEN Ok ELSE Err("transport"),
                    !.handle = IF o.ok
                               THEN [held |-> TRUE, status |-> o.status,
                                     body |-> o.body, consumed |-> 0]
                               ELSE NoHandle]]
    /\ UNCHANGED <<client, fs, rm_mode, rm_text, rm_parsed>>
\* a variant of Exchange that turns a status of 400 or more into an error
ExchangeErrorForStatus(c, o) ==
    /\ network' = [network EXCEPT ![c] = Append(@, Exchanged(calls[c], o))]
    /\ calls' = [calls EXCEPT ![c] =
          [@ EXCEPT !.pc = "done",
                    !.exchanges = @ + 1,
                    !.result = IF o.ok /\ o.status < 400 THEN Ok
                               ELSE IF o.ok THEN Err("status") ELSE Err("transport"),
                    !.handle = IF o.ok /\ o.status < 400
                               THEN [held |-> TRUE, status |-> o.status,
                                     body |-> o.body, consumed |-> 0]
                               ELSE NoHandle]]
    /\ UNCHANGED <<client, fs, rm_mode, rm_text, rm_parsed>>
\* a variant of Exchange that reads the whole body unless the call streams
ExchangeBuffered(c, o) ==
    /\ network' = [network EXCEPT ![c] = Append(@, Exchanged(calls[c], o))]
    /\ calls' = [calls EXCEPT ![c] =
          [@ EXCEPT !.pc = "done",
                    !.exchanges = @ + 1,
                    !.result = IF o.ok THEN Ok ELSE Err("transport"),
                    !.handle = IF o.ok
                               THEN [held |-> TRUE, status |-> o.status,
                                     body |-> o.body,
                                     consumed |-> IF calls[c].stream THEN 0
                                                  ELSE Len(o.body)]
                               ELSE NoHandle]]
    /\ UNCHANGED <<client, fs, rm_mode, rm_text, rm_parsed>>
\* the request goes to the transport once; its error, or the response as soon
\* as the status and headers are there, is the call's result
Exchange(c, o) ==
    /\ network' = [network EXCEPT ![c] = Append(@, Exchanged(calls[c], o))]
    /\ calls' = [calls EXCEPT ![c] =
          [@ EXCEPT !.pc = "done",
                    !.exchanges = @ + 1,
                    !.result = IF o.ok THEN Ok ELSE Err("transport"),
                    !.handle = IF o.ok
                               THEN [held |-> TRUE, status |-> o.status,
                                     body |-> o.body, consumed |-> 0]
                               ELSE NoHandle]]
    /\ UNCHANGED <<client, fs, rm_mode, rm_text, rm_parsed>>

\* send_request: Ok(self.client.execute(request).await?)
Execute(c, outcomes) ==
    /\ calls[c].pc = "executing"
    /\ \E o \in outcomes : Exchange(c, o)

\* send_request_with_files: Ok(self.client.request(..)...send().await?)
Send(c, outcomes) ==
    /\ calls[c].pc = "sending"
    /\ \E o \in outcomes : Exchange(c, o)

---------------------------------------------------------------------------
\* The callers of src/tests/chat.rs, holding the response of a finished call

\* result.text().await: the whole body is read and the response given up
Text(c) ==
    /\ calls[c].handle.held
    /\ calls' = [calls EXCEPT ![c].handle.consumed = Len(calls[c].handle.body),
                              ![c].handle.held = FALSE]
    /\ UNCHANGED <<client, fs, network, rm_mode, rm_text, rm_parsed>>

\* stream.next().await yielding the next chunk of result.bytes_stream()
NextChunk(c) ==
    /\ calls[c].handle.held
    /\ calls[c].handle.consumed < Len(calls[c].handle.body)
    /\ calls' = [calls EXCEPT ![c].handle.consumed = @ + 1]
    /\ UNCHANGED <<client, fs, network, rm_mode, rm_text, rm_parsed>>

\* the response, or its stream, goes out of scope
DropHandle(c) ==
    /\ calls[c].handle.held
    /\ calls' = [calls EXCEPT ![c].handle.held = FALSE]
    /\ UNCHANGED <<client, fs, network, rm_mode, rm_text, rm_parsed>>

---------------------------------------------------------------------------
\* ResponseMode through serde_json, text and back

NotParsed == <<>>

\* names and JSON texts a parse is tried on
WireNames ==
    {"blocking", "streaming", "Block", "Stream", "block", "stream",
     "BLOCKING", "STREAMING", "Blocking", "Streaming", "", "blocking ", " streaming", "0", "null"}
JsonTexts == WireNames \cup {Quote(n) : n \in WireNames}

\* serde_json::to_string(&mode)
SerializeMode ==
    /\ rm_text' = ModeToJsonText(rm_mode)
    /\ rm_parsed' = NotParsed
    /\ UNCHANGED <<client, fs, calls, network, rm_mode>>

\* serde_json::from_str::<ResponseMode>(&text)
ParseMode ==
    /\ rm_parsed = NotParsed
    /\ rm_parsed' = Some(ModeFromJsonText(rm_text))
    /\ UNCHANGED <<client, fs, calls, network, rm_mode, rm_text>>

---------------------------------------------------------------------------
\* Initial states

Clients ==
    { NewClient("k1", None),
      NewClient("key-2", Some("http://localhost/v1")),
      NewClient("bad\nkey", None),
      NewClient("k1", Some("")) }

File(bytes) == [exists |-> TRUE, bytes |-> bytes, fail_at |-> None]
MissingFile == [exists |-> FALSE, bytes |-> <<>>, fail_at |-> None]

\* the files of the concurrent specification: a short file, a path that does
\* not open, and a file whose reads fail after its first byte
SmallFs ==
    [p \in {"a.txt", "missing.txt", "bad.bin"} |->
        IF p = "a.txt" THEN File(<<104, 105>>)
        ELSE IF p = "missing.txt" THEN MissingFile
        ELSE [exists |-> TRUE, bytes |-> <<1, 2>>, fail_at |-> Some(1)]]

\* the file of the reader's specification: N bytes for N = 0, N below the
\* chunk size, the chunk size, and past it
FileBytes(len) == [i \in 1..len |-> (i * 7) % 251]
FileLens == {0, 1, ChunkSize - 1} \cup (ChunkSize..(ChunkSize + MaxExtra))
ReadFs == {[p \in {"f.bin"} |-> File(FileBytes(len))] : len \in FileLens}

InitCalls ==
    /\ calls = [c \in Calls |-> IdleCall]
    /\ network = [c \in Calls |-> <<>>]

InitMode ==
    /\ rm_mode = "Block"
    /\ rm_text = ""
    /\ rm_parsed = NotParsed

Init ==
    /\ client \in Clients
    /\ fs = SmallFs
    /\ InitCalls
    /\ InitMode

InitRead ==
    /\ client = NewClient("k1", None)
    /\ fs \in ReadFs
    /\ InitCalls
    /\ InitMode

InitRoundTrip ==
    /\ client = NewClient("k1", None)
    /\ fs = SmallFs
    /\ InitCalls
    /\ rm_mode \in ResponseModes
    /\ rm_text \in JsonTexts
    /\ rm_parsed = NotParsed

---------------------------------------------------------------------------
\* Arguments

Args(user) == [NoArgs EXCEPT !.user = Some(user)]

FeedbackArgsSmall == {[Args("u1") EXCEPT !.message_id = "m1", !.rating = TRUE]}
FeedbackArgsAll ==
    {[Args("u1") EXCEPT !.message_id = m, !.rating = r] :
        m \in {"m1", "m2"}, r \in BOOLEAN}
ParametersArgsSmall == {Args("u1")}
ParametersArgsAll == {Args("u1"), Args("a b"), Args("a&b=c")}
UploadArgs == {[Args("u1") EXCEPT !.path = p] : p \in DOMAIN fs}
DatasetArgs == {[NoArgs EXCEPT !.name = "docs"]}

InputsSet ==
    {JObject(EmptyMap), JObject(MapInsert(EmptyMap, "topic", JString("tla")))}
FilesSet ==
    {None, Some(JArray(<<>>)),
     Some(JArray(<<JObject(MapInsert(EmptyMap, "type", JString("image")))>>))}

ChatArgsSmall ==
    {[Args("u1") EXCEPT !.query = "hi", !.mode = m] : m \in ResponseModes}
ChatArgsAll ==
    {[Args(u) EXCEPT !.inputs = i, !.query = q, !.mode = m,
                     !.conversation_id = cv, !.files = f] :
        u \in {"u1", "mock-user"}, i \in InputsSet, q \in {"hi", "bye"},
        m \in ResponseModes, cv \in {None, Some("c1"), Some("c2")},
        f \in FilesSet}

CompletionArgsSmall == {[Args("u1") EXCEPT !.mode = "streaming"]}
CompletionArgsAll ==
    {[Args("u1") EXCEPT !.inputs = i, !.mode = m, !.files = f] :
        i \in InputsSet, m \in {"blocking", "streaming", "other"}, f \in FilesSet}

RunArgsSmall == {[NoArgs EXCEPT !.mode = "Stream"]}
RunArgsAll ==
    {[NoArgs EXCEPT !.inputs = i, !.mode = m, !.user = u] :
        i \in InputsSet, m \in ResponseModes, u \in {None, Some("u1")}}

---------------------------------------------------------------------------
\* Specifications

\* any number of calls up to MaxCalls, interleaved through one client
Next ==
    \E c \in Calls :
        \/ \E a \in FeedbackArgsSmall : MessageFeedback(c, a)
        \/ \E a \in ParametersArgsSmall : GetApplicationParameters(c, a)
        \/ \E a \in UploadArgs : FileUpload(c, a)
        \/ FileOpen(c)
        \/ FileRead(c, {"b1"})
        \/ \E a \in CompletionArgsSmall : CreateCompletionMessage(c, a)
        \/ \E a \in ChatArgsSmall : CreateChatMessage(c, a)
        \/ \E a \in RunArgsSmall : Run(c, a)
        \/ \E a \in DatasetArgs : CreateDataset(c, a)
        \/ Execute(c, OutcomesSmall)
        \/ Send(c, OutcomesSmall)

Spec == Init /\ [][Next]_vars

\* one call of any operation, over all the arguments modelled, and its caller
TheCall == CHOOSE c \in Calls : \A d \in Calls : c <= d

NextCall ==
    \/ \E a \in FeedbackArgsAll : MessageFeedback(TheCall, a)
    \/ \E a \in ParametersArgsAll : GetApplicationParameters(TheCall, a)
    \/ \E a \in UploadArgs : FileUpload(TheCall, a)
    \/ FileOpen(TheCall)
    \/ FileRead(TheCall, Boundaries)
    \/ \E a \in CompletionArgsAll : CreateCompletionMessage(TheCall, a)
    \/ \E a \in ChatArgsAll : CreateChatMessage(TheCall, a)
    \/ \E a \in RunArgsAll : Run(TheCall, a)
    \/ \E a \in DatasetArgs : CreateDataset(TheCall, a)
    \/ Execute(TheCall, OutcomesAll)
    \/ Send(TheCall, OutcomesAll)
    \/ Text(TheCall)
    \/ NextChunk(TheCall)
    \/ DropHandle(TheCall)

SpecCall == Init /\ [][NextCall]_vars

\* file uploads one after the other: a call starts when those before it ended
NextRead ==
    \E c \in Calls :
        /\ \A d \in 1..(c - 1) : calls[d].pc = "done"
        /\ \/ \E a \in UploadArgs : FileUpload(c, a)
           \/ FileOpen(c)
           \/ FileRead(c, {"b1"})
           \/ Send(c, OutcomesRead)

SpecRead == InitRead /\ [][NextRead]_vars

\* a ResponseMode serialized and parsed
NextRoundTrip == SerializeMode \/ ParseMode

SpecRoundTrip == InitRoundTrip /\ [][NextRoundTrip]_vars

---------------------------------------------------------------------------
\* What the claims speak of

\* the requests that reached the transport
Sent(c) == {network[c][i].req : i \in 1..Len(network[c])}

\* the operations that go through send_request
JsonOps ==
    {"message_feedback", "get_application_parameters",
     "create_completion_message", "create_chat_message", "run", "create_dataset"}

\* what a call's facade passed to send_request
SendArgsOf(call) ==
    CASE call.op = "message_feedback" -> FeedbackCall(call.args)
      [] call.op = "get_application_parameters" -> ParametersCall(call.args)
      [] call.op = "create_completion_message" -> CompletionCall(call.args)
      [] call.op = "create_chat_message" -> ChatCall(call.args)
      [] call.op = "run" -> RunCall(call.args)
      [] OTHER -> DatasetCall(call.args)

HasControl(s) == \E i \in 1..Len(s) : SubSeq(s, i, i) \in {"\n", "\r"}

Failed(call) == IsSome(call.result) /\ ~Unwrap(call.result).ok
Succeeded(call) == IsSome(call.result) /\ Unwrap(call.result).ok

---------------------------------------------------------------------------
\* C1: every request that reaches the transport, from any public operation, on
\* the JSON path and on the multipart path, carries exactly one Authorization
\* header, and its value is "Bearer " followed by the client's api_key.
C1_AuthorizationOnEveryRequest ==
    \A c \in Calls :
        \A r \in Sent(c) \cup {calls[c].request[i] : i \in 1..Len(calls[c].request)} :
            /\ "authorization" \in DOMAIN r.headers
            /\ r.headers["authorization"] = <<"Bearer " \o client.api_key>>

\* a GET without body and a multipart upload have both reached the transport
C1_Witness ==
    \E c, d \in Calls :
        /\ calls[c].op = "get_application_parameters" /\ Len(network[c]) = 1
        /\ calls[d].op = "file_upload" /\ Len(network[d]) = 1
        /\ network[d][1].req.body.kind = "multipart"
        /\ client.api_key = "key-2"

---------------------------------------------------------------------------
\* C4: a call whose request cannot be constructed (an api_key that is no
\* header value, a URL that does not parse, a file that does not open or
\* whose read errors) ends with an error that is not the transport's, and
\* nothing of it ever reaches the transport.
ConstructionFails(call) ==
    \/ HasControl(client.api_key)
    \/ ~(\/ HasPrefix(client.base_url, "http://")
         \/ HasPrefix(client.base_url, "https://"))
    \/ /\ call.op = "file_upload"
       /\ \/ ~fs[call.args.path].exists
          \/ IsSome(fs[call.args.path].fail_at)

C4_NoExchangeOnConstructionFailure ==
    \A c \in Calls :
        /\ (calls[c].op # "" /\ ConstructionFails(calls[c])) =>
              /\ network[c] = <<>>
              /\ calls[c].exchanges = 0
              /\ calls[c].request = None
              /\ calls[c].pc \notin {"executing", "sending"}
              /\ calls[c].pc = "done" =>
                    /\ Failed(calls[c])
                    /\ Unwrap(calls[c].result).err # "transport"
        /\ (Failed(calls[c]) /\ Unwrap(calls[c].result).err # "transport") =>
              /\ network[c] = <<>>
              /\ calls[c].pc = "done"

\* one upload failed at the open, another at a read, and nothing was sent
C4_Witness ==
    \E c, d \in Calls :
        /\ calls[c].result = Err("io: open")
        /\ calls[d].result = Err("io: read") /\ calls[d].rd.pos > 0
        /\ \A e \in Calls : network[e] = <<>>

---------------------------------------------------------------------------
\* C5: a call performs no exchange before its request is built, exactly one
\* once it has ended with a request built, and never more than one; a
\* transport failure is the call's result, after one exchange. Over all the
\* calls interleaved through the client the exchanges are as many as the
\* ended calls whose construction succeeded, and a step of one call leaves
\* every other call, and its exchanges, as they were.
C5_Accounting ==
    /\ \A c \in Calls :
          /\ Len(network[c]) = calls[c].exchanges
          /\ calls[c].exchanges <= 1
          /\ calls[c].request = None => calls[c].exchanges = 0
          /\ (calls[c].pc = "done" /\ IsSome(calls[c].request)) =>
                calls[c].exchanges = 1
          /\ calls[c].pc \in {"executing", "sending"} => calls[c].exchanges = 0
          /\ (Failed(calls[c]) /\ Unwrap(calls[c].result).err = "transport") =>
                /\ calls[c].pc = "done"
                /\ calls[c].exchanges = 1
                /\ ~network[c][1].answer.ok
          /\ \A i \in 1..Len(network[c]) : network[c][i].req = Unwrap(calls[c].request)
    /\ Cardinality({c \in Calls : Len(network[c]) > 0})
          = Cardinality({c \in Calls : calls[c].pc = "done" /\ IsSome(calls[c].request)})

C5_Independent ==
    \A c \in Calls :
        (calls'[c] # calls[c] \/ network'[c] # network[c]) =>
            \A d \in Calls \ {c} : calls'[d] = calls[d] /\ network'[d] = network[d]

C5_OneExchangePerCall == [](C5_Accounting) /\ [][C5_Independent]_vars

\* a call ended with the transport's failure after its one exchange while
\* another call, its request built, is still in flight
C5_Witness ==
    \E c, d \in Calls :
        /\ calls[c].result = Err("transport") /\ calls[c].exchanges = 1
        /\ calls[d].pc = "executing" /\ calls[d].exchanges = 0

---------------------------------------------------------------------------
\* C7: a request of the multipart path has one Content-Type, which carries
\* the form's boundary and is not application/json; a request of the JSON
\* path, with a body or without, has the one Content-Type application/json.
C7_ContentType ==
    \A c \in Calls :
        \A r \in Sent(c) \cup {calls[c].request[i] : i \in 1..Len(calls[c].request)} :
            /\ "content-type" \in DOMAIN r.headers
            /\ Len(r.headers["content-type"]) = 1
            /\ calls[c].op = "file_upload" =>
                  /\ r.body.kind = "multipart"
                  /\ r.headers["content-type"][1] # "application/json"
                  /\ HasPrefix(r.headers["content-type"][1],
                               "multipart/form-data; boundary=")
            /\ calls[c].op \in JsonOps =>
                  /\ r.body.kind \in {"json", "none"}
                  /\ r.headers["content-type"] = <<"application/json">>

\* a multipart upload, a JSON request with a body and one without were sent
C7_Witness ==
    \E c, d \in Calls :
        /\ calls[c].op = "file_upload" /\ Len(network[c]) = 1
        /\ network[c][1].req.body.kind = "multipart"
        /\ calls[d].op = "get_application_parameters" /\ Len(network[d]) = 1
        /\ network[d][1].req.body.kind = "none"

---------------------------------------------------------------------------
\* The body of a chat call's request

ChatCalls == {c \in Calls : calls[c].op = "create_chat_message" /\ IsSome(calls[c].request)}
ChatBody(c) == Unwrap(Unwrap(calls[c].request).body.json)

\* the wire string of a ResponseMode variant, as the API documents it
WireString(mode) == IF mode = "Block" THEN "blocking" ELSE "streaming"

\* C2: the body of a chat call without conversation_id and files has exactly
\* the keys inputs, query, user and response_mode, and for either ResponseMode
\* its response_mode is the wire string blocking or streaming, eight or nine
\* characters with no quote character in the value.
C2_ChatBodyWireMode ==
    \A c \in ChatCalls :
        LET a == calls[c].args
            body == ChatBody(c)
        IN  /\ (~IsSome(a.conversation_id) /\ ~IsSome(a.files)) =>
                  DOMAIN body.v = {"inputs", "query", "user", "response_mode"}
            /\ body.v["response_mode"] = JString(WireString(a.mode))
            /\ a.mode = "Block" => Len(body.v["response_mode"].v) = 8

\* the key set alone, which the code does keep
C2_ChatBodyKeys ==
    \A c \in ChatCalls :
        (~IsSome(calls[c].args.conversation_id) /\ ~IsSome(calls[c].args.files)) =>
            DOMAIN ChatBody(c).v = {"inputs", "query", "user", "response_mode"}

---------------------------------------------------------------------------
\* C8: in a chat call the body is that of the same call without
\* conversation_id, plus the one key conversation_id holding the string given
\* when one is given, and the same body when none is; the keys inputs, query,
\* user and response_mode keep their values; and so for files.
AddsExactly(body, without, key, val) ==
    /\ key \notin DOMAIN without.v
    /\ DOMAIN body.v = (DOMAIN without.v) \cup {key}
    /\ body.v[key] = val
    /\ \A k \in DOMAIN without.v : body.v[k] = without.v[k]

C8_OptionalKeysAddOneKey ==
    \A c \in ChatCalls :
        LET a == calls[c].args
            body == ChatBody(c)
            noConv == ChatData(a.inputs, a.query, Unwrap(a.user), a.mode, None, a.files)
            noFiles == ChatData(a.inputs, a.query, Unwrap(a.user), a.mode,
                                a.conversation_id, None)
        IN  /\ IF IsSome(a.conversation_id)
               THEN AddsExactly(body, noConv, "conversation_id",
                                JString(Unwrap(a.conversation_id)))
               ELSE body = noConv /\ "conversation_id" \notin DOMAIN body.v
            /\ IF IsSome(a.files)
               THEN AddsExactly(body, noFiles, "files", Unwrap(a.files))
               ELSE body = noFiles /\ "files" \notin DOMAIN body.v
            /\ {"inputs", "query", "user", "response_mode"} \subseteq DOMAIN body.v
            /\ body.v["inputs"] = a.inputs
            /\ body.v["query"] = JString(a.query)
            /\ body.v["user"] = JString(Unwrap(a.user))

\* a chat call with conversation_id "c1" and a file list was sent
C8_Witness ==
    \E c \in ChatCalls :
        /\ calls[c].args.conversation_id = Some("c1")
        /\ IsSome(calls[c].args.files)
        /\ Len(network[c]) = 1
        /\ DOMAIN network[c][1].req.body.json[1].v =
              {"inputs", "query", "user", "response_mode", "conversation_id", "files"}

---------------------------------------------------------------------------
\* The response at the moment a call returns it

Returns(c) == calls[c].pc # "done" /\ calls'[c].pc = "done"

\* C3 as stated: a remote answer with a status outside 200..299 makes the
\* call's result a failure.
C3_RemoteErrorOnNon2xx ==
    \A c \in Calls :
        \A i \in 1..Len(network[c]) :
            (network[c][i].answer.ok /\ network[c][i].answer.status \notin 200..299)
                => Failed(calls[c])

\* C3 as the code has it: whatever status the remote answers with, 500
\* included, the call returns the response itself, a success of the call,
\* carrying that status and the whole body with nothing of it read; the status
\* is what tells a remote failure from a success.
C3_StatusSurfacedAtReturn ==
    \A c \in Calls :
        (Returns(c) /\ Len(network'[c]) = 1 /\ network'[c][1].answer.ok) =>
            /\ Succeeded(calls'[c])
            /\ calls'[c].handle.held
            /\ calls'[c].handle.status = network'[c][1].answer.status
            /\ calls'[c].handle.body = network'[c][1].answer.body
            /\ calls'[c].handle.consumed = 0

C3_ResponseWhateverStatus ==
    /\ [][C3_StatusSurfacedAtReturn]_vars
    /\ [](\A c \in Calls : calls[c].handle.held =>
            /\ Succeeded(calls[c])
            /\ calls[c].handle.status = network[c][1].answer.status
            /\ calls[c].handle.body = network[c][1].answer.body)

\* the remote answered 500 with a body, and the caller read all of it
C3_Witness ==
    \E c \in Calls :
        /\ Succeeded(calls[c])
        /\ calls[c].handle.status = 500
        /\ Len(calls[c].handle.body) = MaxChunks
        /\ calls[c].handle.consumed = MaxChunks

---------------------------------------------------------------------------
\* C10: a call through send_request returns the response with none of its
\* body chunks read, whether its stream argument is true or false; the request
\* it built and sent is the one the same call builds with the other value of
\* stream; reading the body is the caller's, who may also give the response up
\* at once.
C10_StreamNotRead ==
    \A c \in Calls :
        (calls[c].op \in JsonOps /\ IsSome(calls[c].request)) =>
            LET sr == SendArgsOf(calls[c])
                other == SendRequest(client, sr.method, sr.endpoint, sr.json,
                                     sr.params, ~sr.stream)
            IN  /\ calls[c].stream = sr.stream
                /\ other.ok
                /\ Unwrap(calls[c].request) = other.req
                /\ \A r \in Sent(c) : r = other.req
                /\ calls[c].handle.held => ENABLED DropHandle(c)

C10_NothingReadAtReturn ==
    \A c \in Calls :
        (Returns(c) /\ Succeeded(calls'[c])) =>
            /\ calls'[c].handle.held
            /\ calls'[c].handle.consumed = 0
            /\ calls'[c].handle.body = network'[c][1].answer.body

C10_ResponseReturnedUnread ==
    [](C10_StreamNotRead) /\ [][C10_NothingReadAtReturn]_vars

\* a streaming chat call succeeded, and its caller gave the response up
\* without reading any of its chunks
C10_Witness ==
    \E c \in Calls :
        /\ calls[c].op = "create_chat_message" /\ calls[c].stream
        /\ Succeeded(calls[c])
        /\ Len(calls[c].handle.body) > 0
        /\ calls[c].handle.consumed = 0
        /\ ~calls[c].handle.held

---------------------------------------------------------------------------
\* C6: whatever the sizes of the partial reads, the bytes accumulated are at
\* every turn the file's first bytes up to the position read, in order; the
\* loop ends at the first read that returns 0, which is at the end of the
\* file; the bytes uploaded are then the file's N bytes, for N = 0, N below,
\* at and past the chunk size; and a second read of the same file gives the
\* same bytes.
FilePart(r) == r.body.parts[2]

C6_ChunkedReadPreservesBytes ==
    \A c \in Calls :
        LET call == calls[c]
            bytes == fs[call.args.path].bytes
        IN  call.op = "file_upload" =>
              /\ call.rd.pos <= Len(bytes)
              /\ Len(call.rd.content) = call.rd.pos
              /\ call.rd.content = SubSeq(bytes, 1, call.rd.pos)
              /\ call.pc \in {"sending", "done"} /\ IsSome(call.request) =>
                    /\ call.rd.pos = Len(bytes)
                    /\ call.rd.content = bytes
                    /\ ~call.rd.open
                    /\ FilePart(Unwrap(call.request)).name = "file"
                    /\ FilePart(Unwrap(call.request)).bytes = bytes
                    /\ Len(FilePart(Unwrap(call.request)).bytes) = Len(bytes)
              /\ \A r \in Sent(c) : FilePart(r).bytes = bytes
              /\ \A d \in Calls :
                    (IsSome(call.request) /\ IsSome(calls[d].request)) =>
                        FilePart(Unwrap(calls[d].request)).bytes
                            = FilePart(Unwrap(call.request)).bytes

\* a file one byte longer than the chunk was read and uploaded twice, once
\* reading a byte at a time at the start
C6_Witness ==
    /\ Len(fs["f.bin"].bytes) = ChunkSize + 1
    /\ \A c \in 1..2 :
          /\ calls[c].pc = "done"
          /\ Len(network[c]) = 1
          /\ Len(FilePart(network[c][1].req).bytes) = ChunkSize + 1

---------------------------------------------------------------------------
\* C9: the JSON text a variant serializes to parses back to that variant; the
\* wire strings are blocking for Block and streaming for Stream, two distinct
\* strings; and a text parses to a variant only if it is the JSON string of
\* that variant's wire string.
C9_ResponseModeRoundTrip ==
    /\ ModeToValue(rm_mode) = JString(WireString(rm_mode))
    /\ ModeToJsonText("Block") # ModeToJsonText("Stream")
    /\ rm_parsed # NotParsed =>
          LET r == Unwrap(rm_parsed)
          IN  /\ rm_text = ModeToJsonText(rm_mode) => r = Some(rm_mode)
              /\ rm_text = Quote(WireString(rm_mode)) => r = Some(rm_mode)
              /\ IsSome(r) => rm_text = Quote(WireString(Unwrap(r)))

\* Stream was serialized to "streaming" (in quotes) and parsed back
C9_Witness ==
    /\ rm_mode = "Stream"
    /\ rm_text = "\"streaming\""
    /\ rm_parsed = Some(Some("Stream"))

=============================================================================
